---- MODULE Spec2Model ----
(***************************************************************************)
(* Model of server.py (SuzieQ MCP server): the query helper                *)
(* _query_suzieq_api and the two tool entry points run_suzieq_show and     *)
(* run_suzieq_summarize.                                                   *)
(*                                                                         *)
(* A Python str is a sequence of atoms (TLA+ strings standing for one      *)
(* character or one lexeme).  A Python object that json can hold is a      *)
(* tagged record (JNull, JBool, JNum, JStr, JArr, JObj).  A dict of query  *)
(* parameters is a function from keys to values.                           *)
(***************************************************************************)
EXTENDS Integers, Sequences, FiniteSets

\* ------------------------------------------------------------------ bounds
\* number of calls that may be in flight together in SpecConcurrent
MaxCalls == 2

\* json.dumps(result, indent=2, ...)
JsonIndent == 2

\* ------------------------------------------------------------ python str
Quote == "\""
Backslash == "\\"
Newline == "\n"
Space == " "

RECURSIVE Repeat(_, _)
Repeat(a, n) == IF n <= 0 THEN <<>> ELSE <<a>> \o Repeat(a, n - 1)

\* s.rstrip('/')
RECURSIVE RStrip(_)
RStrip(s) ==
    IF Len(s) > 0 /\ s[Len(s)] = "/" THEN RStrip(SubSeq(s, 1, Len(s) - 1)) ELSE s

\* needle in hay, for two str
Contains(hay, needle) ==
    \E i \in 1..(Len(hay) - Len(needle) + 1) :
        SubSeq(hay, i, i + Len(needle) - 1) = needle

\* 'application/json' in content_type
IsJsonContentType(content_type) == \E i \in 1..Len(content_type) : content_type[i] = "application/json"

\* ------------------------------------------------------------ json values
JNull == [t |-> "null"]
JBool(b) == [t |-> "bool", b |-> b]
JNum(k, v) == [t |-> "num", k |-> k, v |-> v]
JStr(s) == [t |-> "str", s |-> s]
JArr(items) == [t |-> "arr", items |-> items]
JObj(members) == [t |-> "obj", members |-> members]

\* number lexemes the remote can send, and the python number each one parses to
NumberLexemes == {"1", "404", "1e2", "100.0"}
ParseNumber(lex) ==
    CASE lex = "1" -> JNum("int", 1)
      [] lex = "404" -> JNum("int", 404)
      [] lex = "1e2" -> JNum("float", 100)
      [] lex = "100.0" -> JNum("float", 100)

\* int.__repr__ / float.__repr__ as used by the json encoder
DumpNumber(n) ==
    CASE n.k = "int" /\ n.v = 1 -> "1"
      [] n.k = "int" /\ n.v = 404 -> "404"
      [] n.k = "float" /\ n.v = 100 -> "100.0"

IsWs(a) == a \in {Space, Newline}

RECURSIVE SkipWs(_, _)
SkipWs(text, i) ==
    IF i <= Len(text) /\ IsWs(text[i]) THEN SkipWs(text, i + 1) ELSE i

Fail == [ok |-> FALSE]
Ok(v, next) == [ok |-> TRUE, val |-> v, next |-> next]

\* scan a string literal whose opening quote is at i - 1; acc is the decoded str so far
RECURSIVE ScanString(_, _, _)
ScanString(text, i, acc) ==
    IF i > Len(text) THEN Fail
    ELSE IF text[i] = Quote THEN Ok(acc, i + 1)
    ELSE IF text[i] = Newline THEN Fail
    ELSE IF text[i] = Backslash THEN
        IF i + 1 > Len(text) THEN Fail
        ELSE IF text[i + 1] = Quote THEN ScanString(text, i + 2, Append(acc, Quote))
        ELSE IF text[i + 1] = Backslash THEN ScanString(text, i + 2, Append(acc, Backslash))
        ELSE IF text[i + 1] = "n" THEN ScanString(text, i + 2, Append(acc, Newline))
        ELSE IF text[i + 1] = "u00e9" THEN ScanString(text, i + 2, Append(acc, "é"))
        ELSE Fail
    ELSE ScanString(text, i + 1, Append(acc, text[i]))

\* dict[key] = value on an insertion-ordered dict held as a sequence of <<key, value>>
DictSet(members, key, value) ==
    IF \E j \in 1..Len(members) : members[j][1] = key
    THEN [j \in 1..Len(members) |-> IF members[j][1] = key THEN <<key, value>> ELSE members[j]]
    ELSE Append(members, <<key, value>>)

RECURSIVE ParseValue(_, _)
RECURSIVE ParseArrayRest(_, _, _)
RECURSIVE ParseObjectRest(_, _, _)
RECURSIVE ParseMember(_, _, _)

\* after '[' v1 ... vk : expect ',' value or ']'
ParseArrayRest(text, i0, acc) ==
    LET i == SkipWs(text, i0) IN
    IF i > Len(text) THEN Fail
    ELSE IF text[i] = "]" THEN Ok(JArr(acc), i + 1)
    ELSE IF text[i] = "," THEN
        LET r == ParseValue(text, i + 1) IN
        IF r.ok THEN ParseArrayRest(text, r.next, Append(acc, r.val)) ELSE Fail
    ELSE Fail

\* expect '"key" : value' at i0, then the rest of the object
ParseMember(text, i0, acc) ==
    LET i == SkipWs(text, i0) IN
    IF i > Len(text) \/ text[i] # Quote THEN Fail
    ELSE LET k == ScanString(text, i + 1, <<>>) IN
         IF ~k.ok THEN Fail
         ELSE LET c == SkipWs(text, k.next) IN
              IF c > Len(text) \/ text[c] # ":" THEN Fail
              ELSE LET r == ParseValue(text, c + 1) IN
                   IF r.ok THEN ParseObjectRest(text, r.next, DictSet(acc, k.val, r.val))
                   ELSE Fail

\* after '{' m1 ... mk : expect ',' member or '}'
ParseObjectRest(text, i0, acc) ==
    LET i == SkipWs(text, i0) IN
    IF i > Len(text) THEN Fail
    ELSE IF text[i] = "}" THEN Ok(JObj(acc), i + 1)
    ELSE IF text[i] = "," THEN ParseMember(text, i + 1, acc)
    ELSE Fail

ParseValue(text, i0) ==
    LET i == SkipWs(text, i0) IN
    IF i > Len(text) THEN Fail
    ELSE LET a == text[i] IN
         IF a = "null" THEN Ok(JNull, i + 1)
         ELSE IF a = "true" THEN Ok(JBool(TRUE), i + 1)
         ELSE IF a = "false" THEN Ok(JBool(FALSE), i + 1)
         ELSE IF a \in NumberLexemes THEN Ok(ParseNumber(a), i + 1)
         ELSE IF a = Quote THEN
             LET s == ScanString(text, i + 1, <<>>) IN
             IF s.ok THEN Ok(JStr(s.val), s.next) ELSE Fail
         ELSE IF a = "[" THEN
             LET j == SkipWs(text, i + 1) IN
             IF j <= Len(text) /\ text[j] = "]" THEN Ok(JArr(<<>>), j + 1)
             ELSE LET r == ParseValue(text, j) IN
                  IF r.ok THEN ParseArrayRest(text, r.next, <<r.val>>) ELSE Fail
         ELSE IF a = "{" THEN
             LET j == SkipWs(text, i + 1) IN
             IF j <= Len(text) /\ text[j] = "}" THEN Ok(JObj(<<>>), j + 1)
             ELSE ParseMember(text, j, <<>>)
         ELSE Fail

\* json.loads(text): the whole text must be one value
Loads(text) ==
    LET r == ParseValue(text, 1) IN
    IF r.ok /\ SkipWs(text, r.next) = Len(text) + 1 THEN [ok |-> TRUE, val |-> r.val]
    ELSE Fail

\* one character of a str inside a json string literal
EscapeChar(a, ensure_ascii) ==
    IF a = Quote THEN <<Backslash, Quote>>
    ELSE IF a = Backslash THEN <<Backslash, Backslash>>
    ELSE IF a = Newline THEN <<Backslash, "n">>
    ELSE IF a = "é" /\ ensure_ascii THEN <<Backslash, "u00e9">>
    ELSE <<a>>

RECURSIVE EscapeStr(_, _)
EscapeStr(s, ensure_ascii) ==
    IF s = <<>> THEN <<>>
    ELSE EscapeChar(Head(s), ensure_ascii) \o EscapeStr(Tail(s), ensure_ascii)

DumpStr(s, ensure_ascii) == <<Quote>> \o EscapeStr(s, ensure_ascii) \o <<Quote>>

\* newline and indentation before an item at nesting level; nothing when indent is None
Break(indent, level) ==
    IF indent < 0 THEN <<>> ELSE <<Newline>> \o Repeat(Space, indent * level)

ItemSep(indent) == IF indent < 0 THEN <<",", Space>> ELSE <<",">>

RECURSIVE DumpValue(_, _, _, _)
RECURSIVE DumpItems(_, _, _, _, _)
RECURSIVE DumpMembers(_, _, _, _, _)

DumpItems(items, j, indent, ensure_ascii, level) ==
    IF j > Len(items) THEN <<>>
    ELSE (IF j > 1 THEN ItemSep(indent) ELSE <<>>)
         \o Break(indent, level)
         \o DumpValue(items[j], indent, ensure_ascii, level)
         \o DumpItems(items, j + 1, indent, ensure_ascii, level)

DumpMembers(members, j, indent, ensure_ascii, level) ==
    IF j > Len(members) THEN <<>>
    ELSE (IF j > 1 THEN ItemSep(indent) ELSE <<>>)
         \o Break(indent, level)
         \o DumpStr(members[j][1], ensure_ascii) \o <<":", Space>>
         \o DumpValue(members[j][2], indent, ensure_ascii, level)
         \o DumpMembers(members, j + 1, indent, ensure_ascii, level)

DumpValue(v, indent, ensure_ascii, level) ==
    CASE v.t = "null" -> <<"null">>
      [] v.t = "bool" -> IF v.b THEN <<"true">> ELSE <<"false">>
      [] v.t = "num" -> <<DumpNumber(v)>>
      [] v.t = "str" -> DumpStr(v.s, ensure_ascii)
      [] v.t = "arr" ->
            IF v.items = <<>> THEN <<"[", "]">>
            ELSE <<"[">> \o DumpItems(v.items, 1, indent, ensure_ascii, level + 1)
                 \o Break(indent, level) \o <<"]">>
      [] v.t = "obj" ->
            IF v.members = <<>> THEN <<"{", "}">>
            ELSE <<"{">> \o DumpMembers(v.members, 1, indent, ensure_ascii, level + 1)
                 \o Break(indent, level) \o <<"}">>

\* json.dumps(obj, indent=indent, ensure_ascii=ensure_ascii); indent -1 stands for None
Dumps(v, indent, ensure_ascii) == DumpValue(v, indent, ensure_ascii, 0)

\* json.dumps raises TypeError on an object that is not a json value
Serializable(v) == v.t \in {"null", "bool", "num", "str", "arr", "obj"}


\* ------------------------------------------------------- python objects
\* None is JNull, a str is JStr, a list is JArr; a dict owned by the caller
\* is a reference into the heap, so that aliasing is visible.
Ref(o) == [t |-> "ref", id |-> o]
Unset == [t |-> "unset"]
NoOutcome == [kind |-> "none"]

EmptyDict == [k \in {} |-> JNull]
DictPut(d, k, v) == [x \in (DOMAIN d) \cup {k} |-> IF x = k THEN v ELSE d[x]]
DictGet(d, k, default) == IF k \in DOMAIN d THEN d[k] ELSE default

S(a) == JStr(<<a>>)

\* the dicts callers own and may pass as filters, as they are before any call
Objs == {"F0", "F1", "F2"}
Heap0 ==
    [o \in Objs |->
        CASE o = "F0" -> EmptyDict
          [] o = "F1" -> [hostname |-> S("leaf01")]
          [] o = "F2" -> [access_token |-> S("evil"), format |-> S("csv")]]

\* bool(v)
Truthy(v, h) ==
    CASE v.t = "null" -> FALSE
      [] v.t = "str" -> v.s # <<>>
      [] v.t = "arr" -> v.items # <<>>
      [] v.t = "ref" -> DOMAIN h[v.id] # {}

\* isinstance(v, dict)
IsDict(v) == v.t = "ref"

\* ------------------------------------------------------------- messages
ConfigErrorMsg ==
    <<"SuzieQ API endpoint or key not ", "configured",
      ". Set SUZIEQ_API_ENDPOINT and SUZIEQ_API_KEY environment variables or in .env file.">>

StatusStr(code) ==
    CASE code = 200 -> "200" [] code = 201 -> "201" [] code = 204 -> "204" [] code = 301 -> "301"
      [] code = 404 -> "404" [] code = 500 -> "500"

WarningMsg(verb, table) ==
    <<"Received empty response (204 No Content) from SuzieQ API for ", verb, " ", table>>

UnexpectedContentTypeMsg(content_type, text) ==
    <<"Unexpected content type received: ">> \o content_type \o <<". Response text: ">> \o text

HTTPErrorMsg(code, text) == <<"HTTP error occurred: ", StatusStr(code), " - ">> \o text

RequestErrorMsg(url, exc) ==
    <<"An error occurred while requesting ", "URL('">> \o url \o <<"?...", "')", ": ", exc>>

DecodeErrorMsg(text) ==
    <<"Failed to decode JSON response from SuzieQ API: ", "Expecting value", ". Response text: ">> \o text

UnexpectedErrorMsg(exc) == <<"An unexpected error occurred: ", exc>>

SerializeErrorMsg(verb) ==
    <<"Error serializing SuzieQ '", verb, "' response to JSON: ", "Object is not JSON serializable">>

\* variant: an error mapping that carries a second key
ErrorResultWithDetail(msg) ==
    JObj(<< <<(<<"error">>), JStr(msg)>>, <<(<<"detail">>), JStr(msg)>> >>)

\* {"error": msg} and {"warning": msg}
ErrorResult(msg) == JObj(<< <<(<<"error">>), JStr(msg)>> >>)
WarningResult(msg) == JObj(<< <<(<<"warning">>), JStr(msg)>> >>)

\* ------------------------------------------------------ _query_suzieq_api
\* variant: the check written with "and"
ConfigMissingBoth(endpoint, key) == ~Truthy(endpoint, Heap0) /\ ~Truthy(key, Heap0)

\* not SUZIEQ_API_ENDPOINT or not SUZIEQ_API_KEY
ConfigMissing(endpoint, key) == ~Truthy(endpoint, Heap0) \/ ~Truthy(key, Heap0)

\* f"{api_endpoint_clean}/{table}/{verb}"
ApiUrl(endpoint, table, verb) == RStrip(endpoint.s) \o <<"/", table, "/", verb>>

\* variant: setdefault, so that the caller's value stays on a collision
InjectParamsKeepCaller(d, key) ==
    LET d1 == IF "access_token" \in DOMAIN d THEN d ELSE DictPut(d, "access_token", key) IN
    IF "format" \in DOMAIN d1 THEN d1 ELSE DictPut(d1, "format", S("json"))

\* query_params["access_token"] = SUZIEQ_API_KEY; query_params["format"] = "json"
InjectParams(d, key) == DictPut(DictPut(d, "access_token", key), "format", S("json"))

\* response.raise_for_status(): 4xx and 5xx always raise; whether another
\* non-2xx status raises depends on the installed httpx (strict)
RaiseForStatus(out) ==
    \/ out.status \div 100 \in {4, 5}
    \/ out.status \div 100 # 2 /\ out.strict

Returns(v, jsonCalled, ctypeRead) ==
    [exc |-> "none", value |-> v, jsonCalled |-> jsonCalled, ctypeRead |-> ctypeRead]
Raises(e, jsonCalled, ctypeRead) ==
    [exc |-> e, jsonCalled |-> jsonCalled, ctypeRead |-> ctypeRead]

\* variant: raise_for_status called only once the content-type did not match
TryBodyStatusLast(verb, table, out) ==
    IF out.kind # "response" THEN Raises(out.kind, FALSE, FALSE)
    ELSE IF out.status = 204 THEN Returns(WarningResult(WarningMsg(verb, table)), FALSE, FALSE)
    ELSE LET content_type == DictGet(out.headers, "content-type", <<>>) IN
         IF IsJsonContentType(content_type)
         THEN LET r == Loads(out.text) IN
              IF r.ok THEN Returns(r.val, TRUE, TRUE)
              ELSE Raises("JSONDecodeError", TRUE, TRUE)
         ELSE IF RaiseForStatus(out) THEN Raises("HTTPStatusError", FALSE, TRUE)
         ELSE Returns(ErrorResult(UnexpectedContentTypeMsg(content_type, out.text)), FALSE, TRUE)

\* variant: the 204 test made only once the content-type did not match
TryBodyNoContentLast(verb, table, out) ==
    IF out.kind # "response" THEN Raises(out.kind, FALSE, FALSE)
    ELSE IF RaiseForStatus(out) THEN Raises("HTTPStatusError", FALSE, FALSE)
    ELSE LET content_type == DictGet(out.headers, "content-type", <<>>) IN
         IF IsJsonContentType(content_type)
         THEN LET r == Loads(out.text) IN
              IF r.ok THEN Returns(r.val, TRUE, TRUE)
              ELSE Raises("JSONDecodeError", TRUE, TRUE)
         ELSE IF out.status = 204
         THEN Returns(WarningResult(WarningMsg(verb, table)), FALSE, TRUE)
         ELSE Returns(ErrorResult(UnexpectedContentTypeMsg(content_type, out.text)), FALSE, TRUE)

\* the body of the try statement, from client.get to the last return
TryBody(verb, table, out) ==
    IF out.kind # "response" THEN Raises(out.kind, FALSE, FALSE)
    ELSE IF RaiseForStatus(out) THEN Raises("HTTPStatusError", FALSE, FALSE)
    ELSE IF out.status = 204 THEN Returns(WarningResult(WarningMsg(verb, table)), FALSE, FALSE)
    ELSE LET content_type == DictGet(out.headers, "content-type", <<>>) IN
         IF IsJsonContentType(content_type)
         THEN LET r == Loads(out.text) IN
              IF r.ok THEN Returns(r.val, TRUE, TRUE)
              ELSE Raises("JSONDecodeError", TRUE, TRUE)
         ELSE Returns(ErrorResult(UnexpectedContentTypeMsg(content_type, out.text)), FALSE, TRUE)

\* issubclass(exc, cls) for the exceptions the try body can raise
IsSubclass(exc, cls) ==
    \/ exc = cls
    \/ cls = "Exception"
    \/ cls = "RequestError" /\ exc \in {"ConnectError", "ReadTimeout"}

\* variant: no catch-all clause
ExceptClausesNoCatchAll == <<"HTTPStatusError", "RequestError", "JSONDecodeError">>

\* the except clauses, in order
ExceptClauses == <<"HTTPStatusError", "RequestError", "JSONDecodeError", "Exception">>

\* the first clause that matches exc, or "none"
MatchingClause(exc) ==
    IF \E i \in 1..Len(ExceptClauses) : IsSubclass(exc, ExceptClauses[i])
    THEN ExceptClauses[CHOOSE i \in 1..Len(ExceptClauses) :
            /\ IsSubclass(exc, ExceptClauses[i])
            /\ \A j \in 1..(i - 1) : ~IsSubclass(exc, ExceptClauses[j])]
    ELSE "none"

\* the value the matching except clause returns
Handler(clause, exc, url, out) ==
    CASE clause = "HTTPStatusError" -> ErrorResult(HTTPErrorMsg(out.status, out.text))
      [] clause = "RequestError" -> ErrorResult(RequestErrorMsg(url, exc))
      [] clause = "JSONDecodeError" -> ErrorResult(DecodeErrorMsg(out.text))
      [] clause = "Exception" -> ErrorResult(UnexpectedErrorMsg(exc))

\* the try statement as a whole: what the helper returns or raises for an outcome of the GET
TryExcept(verb, table, url, out) ==
    LET b == TryBody(verb, table, out) IN
    IF b.exc = "none" THEN b
    ELSE LET clause == MatchingClause(b.exc) IN
         IF clause = "none" THEN b
         ELSE Returns(Handler(clause, b.exc, url, out), b.jsonCalled, b.ctypeRead)


\* variant: the result wrapped before it is serialized
SerializeWrapped(result, verb) ==
    Dumps(JObj(<< <<(<<"result">>), result>> >>), JsonIndent, FALSE)

\* json.dumps(result, indent=2, ensure_ascii=False), and the TypeError fallback
Serialize(result, verb) ==
    IF Serializable(result) THEN Dumps(result, JsonIndent, FALSE)
    ELSE Dumps(ErrorResult(SerializeErrorMsg(verb)), -1, TRUE)

\* what the entry point hands back once the helper has returned or raised
EntryReturn(entry, verb, p) ==
    IF p.exc # "none" THEN [t |-> "raise", exc |-> p.exc]
    ELSE IF entry = "_query_suzieq_api" THEN [t |-> "return", value |-> p.value]
    ELSE [t |-> "return", value |-> JStr(Serialize(p.value, verb))]

\* variant: the client is not closed
AExitLeak(state) == state

\* the client on leaving the async with block
AExit(state) == "closed"

\* ------------------------------------------------------------------ state
VARIABLES
    SUZIEQ_API_ENDPOINT,  \* None, '' or the base url, read once at import
    SUZIEQ_API_KEY,       \* None, '' or the key, read once at import
    heap,                 \* the contents of the dicts callers own
    pc,                   \* per call: idle, entered, awaiting, exiting, done, raised
    args,                 \* per call: entry point, verb, table, filters as given, params as passed to the helper
    query_params,         \* per call: the helper's query_params, a reference or a dict of its own
    client,               \* per call: none, open, closed
    gets,                 \* per call: number of GET requests issued
    request,              \* per call: url and parameters of the GET
    outcome,              \* per call: what the GET produced
    pending,              \* per call: the helper's return value or exception, computed inside the async with
    ret                   \* per call: what the entry point returned or raised

vars == <<SUZIEQ_API_ENDPOINT, SUZIEQ_API_KEY, heap, pc, args, query_params, client, gets,
          request, outcome, pending, ret>>
config == <<SUZIEQ_API_ENDPOINT, SUZIEQ_API_KEY>>

Calls == 1..MaxCalls

Endpoints == {JNull, JStr(<<>>), JStr(<<"https://api.example.com">>), JStr(<<"https://api.example.com", "/">>)}
Keys == {JNull, JStr(<<>>), S("KEY123")}

Init ==
    /\ SUZIEQ_API_ENDPOINT \in Endpoints
    /\ SUZIEQ_API_KEY \in Keys
    /\ heap = Heap0
    /\ pc = [c \in Calls |-> "idle"]
    /\ args = [c \in Calls |-> Unset]
    /\ query_params = [c \in Calls |-> Unset]
    /\ client = [c \in Calls |-> "none"]
    /\ gets = [c \in Calls |-> 0]
    /\ request = [c \in Calls |-> Unset]
    /\ outcome = [c \in Calls |-> NoOutcome]
    /\ pending = [c \in Calls |-> Unset]
    /\ ret = [c \in Calls |-> Unset]

\* the dict a query_params value denotes
Deref(qp, h) == IF qp.t = "ref" THEN h[qp.id] ELSE qp.d

\* the helper from its first line to the entry of the async with block (lines 38-56);
\* without configuration it returns at once and the entry point returns with it
HelperEnter(c, entry, verb, table, filters, params) ==
    /\ pc[c] = "idle"
    /\ args' = [args EXCEPT ![c] =
            [entry |-> entry, verb |-> verb, table |-> table, filters |-> filters, params |-> params]]
    /\ UNCHANGED <<config, gets, request, outcome>>
    /\ IF ConfigMissing(SUZIEQ_API_ENDPOINT, SUZIEQ_API_KEY)
       THEN /\ pending' = [pending EXCEPT ![c] = Returns(ErrorResult(ConfigErrorMsg), FALSE, FALSE)]
            /\ ret' = [ret EXCEPT ![c] = EntryReturn(entry, verb, pending'[c])]
            /\ pc' = [pc EXCEPT ![c] = "done"]
            /\ UNCHANGED <<heap, query_params, client>>
       ELSE IF Truthy(params, heap) /\ ~IsDict(params)
       THEN \* query_params is the str or list itself: item assignment raises TypeError
            /\ pending' = [pending EXCEPT ![c] = Raises("TypeError", FALSE, FALSE)]
            /\ ret' = [ret EXCEPT ![c] = EntryReturn(entry, verb, pending'[c])]
            /\ pc' = [pc EXCEPT ![c] = "raised"]
            /\ UNCHANGED <<heap, query_params, client>>
       ELSE /\ IF Truthy(params, heap)
               THEN /\ query_params' = [query_params EXCEPT ![c] = params]
                    /\ heap' = [heap EXCEPT ![params.id] = InjectParams(@, SUZIEQ_API_KEY)]
               ELSE /\ query_params' = [query_params EXCEPT ![c] =
                            [t |-> "dict", d |-> InjectParams(EmptyDict, SUZIEQ_API_KEY)]]
                    /\ UNCHANGED heap
            /\ client' = [client EXCEPT ![c] = "open"]
            /\ pc' = [pc EXCEPT ![c] = "entered"]
            /\ UNCHANGED <<pending, ret>>

\* actual_filters = filters if isinstance(filters, dict) else None
ActualFilters(filters) == IF IsDict(filters) THEN filters ELSE JNull

RunShow(c, table, filters) ==
    HelperEnter(c, "run_suzieq_show", "show", table, filters, ActualFilters(filters))

RunSummarize(c, table, filters) ==
    HelperEnter(c, "run_suzieq_summarize", "summarize", table, filters, ActualFilters(filters))

\* the helper called on its own, with whatever the caller passes as params
QueryDirect(c, verb, table, params) ==
    HelperEnter(c, "_query_suzieq_api", verb, table, params, params)

\* client.get(api_url, headers=headers, params=query_params, timeout=30.0) is issued
SendGet(c) ==
    /\ pc[c] = "entered"
    /\ request' = [request EXCEPT ![c] =
            [url |-> ApiUrl(SUZIEQ_API_ENDPOINT, args[c].table, args[c].verb),
             params |-> Deref(query_params[c], heap)]]
    /\ gets' = [gets EXCEPT ![c] = @ + 1]
    /\ pc' = [pc EXCEPT ![c] = "awaiting"]
    /\ UNCHANGED <<config, heap, args, query_params, client, outcome, pending, ret>>

\* the await of client.get ends with out; the try statement runs to its return or raise
Complete(c, out) ==
    /\ pc[c] = "awaiting"
    /\ outcome' = [outcome EXCEPT ![c] = out]
    /\ pending' = [pending EXCEPT ![c] = TryExcept(args[c].verb, args[c].table, request[c].url, out)]
    /\ pc' = [pc EXCEPT ![c] = "exiting"]
    /\ UNCHANGED <<config, heap, args, query_params, client, gets, request, ret>>

\* a response arrives
Respond(c, out) == out.kind = "response" /\ Complete(c, out)

\* the transport fails: connection refused, or no answer within the timeout
RequestFails(c, e) == Complete(c, [kind |-> e])

\* client.get raises something that is not an httpx.RequestError
GetFails(c) == Complete(c, [kind |-> "OtherError"])

\* the async with block is left, and the entry point returns or raises
Exit(c) ==
    /\ pc[c] = "exiting"
    /\ client' = [client EXCEPT ![c] = AExit(@)]
    /\ ret' = [ret EXCEPT ![c] = EntryReturn(args[c].entry, args[c].verb, pending[c])]
    /\ pc' = [pc EXCEPT ![c] = IF pending[c].exc = "none" THEN "done" ELSE "raised"]
    /\ UNCHANGED <<config, heap, args, query_params, gets, request, outcome, pending>>

\* the caller is done with the call; a later call may follow
Forget(c) ==
    /\ pc[c] \in {"done", "raised"}
    /\ pc' = [pc EXCEPT ![c] = "idle"]
    /\ args' = [args EXCEPT ![c] = Unset]
    /\ query_params' = [query_params EXCEPT ![c] = Unset]
    /\ client' = [client EXCEPT ![c] = "none"]
    /\ gets' = [gets EXCEPT ![c] = 0]
    /\ request' = [request EXCEPT ![c] = Unset]
    /\ outcome' = [outcome EXCEPT ![c] = NoOutcome]
    /\ pending' = [pending EXCEPT ![c] = Unset]
    /\ ret' = [ret EXCEPT ![c] = Unset]
    /\ UNCHANGED <<config, heap>>

\* ------------------------------------------------------------ environment
Tables == {"device", "bgp"}
Verbs == {"show", "summarize"}

\* what a caller may pass as filters: nothing, one of its dicts, or something that is no dict
FilterArgs ==
    {JNull, Ref("F0"), Ref("F1"), Ref("F2"), S("leaf01"), JStr(<<>>), JArr(<<S("leaf01")>>)}

Q(s) == <<Quote>> \o s \o <<Quote>>

Bodies ==
    { <<"{", "}">>,
      <<"[", "1", ",", " ", "1e2", "]">>,
      <<"{">> \o Q(<<"k">>) \o <<":", "1", ",">> \o Q(<<"k">>) \o <<":", "null", "}">>,
      <<"{">> \o Q(<<"h">>) \o <<":">> \o Q(<<"é", Backslash, Quote, "a", Backslash, "n">>) \o <<"}">>,
      <<"{">> \o Q(<<"h">>) \o <<":", "[", "{">> \o Q(<<"a">>) \o <<":", "true", "}", ",", "[", "]", "]", "}">>,
      <<"{">> \o Q(<<"error">>) \o <<":">> \o Q(<<"x">>) \o <<"}">>,
      <<"{", "1">>,
      <<>> }

HeaderSets ==
    { EmptyDict,
      [k \in {"content-type"} |-> <<"application/json">>],
      [k \in {"content-type"} |-> <<"application/json", "; charset=utf-8">>],
      [k \in {"content-type"} |-> <<"text/html">>] }

Statuses == {200, 201, 204, 301, 404, 500}

Response(status, headers, text, strict) ==
    [kind |-> "response", status |-> status, headers |-> headers, text |-> text, strict |-> strict]

Responses ==
    {Response(st, h, b, x) : st \in Statuses, h \in HeaderSets, b \in Bodies, x \in {TRUE}}
    \cup {Response(301, h, b, FALSE) : h \in HeaderSets, b \in Bodies}

\* the few responses used when calls run together
FewResponses ==
    {Response(st, [k \in {"content-type"} |-> <<"application/json">>], <<"{", "}">>, TRUE) :
        st \in {200, 204, 404}}

TransportErrors == {"ConnectError", "ReadTimeout"}

\* -------------------------------------------------------- specifications
\* one step of call c, with inputs drawn from the given sets
Step(c, tables, filterArgs, responses) ==
    \/ \E table \in tables, f \in filterArgs : RunShow(c, table, f)
    \/ \E table \in tables, f \in filterArgs : RunSummarize(c, table, f)
    \/ SendGet(c)
    \/ \E out \in responses : Respond(c, out)
    \/ \E e \in TransportErrors : RequestFails(c, e)
    \/ GetFails(c)
    \/ Exit(c)

\* the tools called one call after the other
Next ==
    \/ Step(1, Tables, FilterArgs, Responses)
    \/ Forget(1)

Spec == Init /\ [][Next]_vars

\* up to MaxCalls calls of the tools in flight together, sharing the caller's dicts
NextConcurrent ==
    \E c \in Calls : Step(c, {"device"}, {JNull, Ref("F1")}, FewResponses)

SpecConcurrent == Init /\ [][NextConcurrent]_vars

\* the helper called directly as well, with any params
NextHelper ==
    \/ Next
    \/ \E verb \in Verbs, table \in Tables, p \in FilterArgs : QueryDirect(1, verb, table, p)

SpecHelper == Init /\ [][NextHelper]_vars

\* ------------------------------------------------------------ properties
Finished(c) == pc[c] \in {"done", "raised"}
IsTool(c) == args[c].entry \in {"run_suzieq_show", "run_suzieq_summarize"}

\* v is a dict with the one key given, holding a str
SingleKey(v, key) ==
    /\ v.t = "obj"
    /\ Len(v.members) = 1
    /\ v.members[1][1] = <<key>>
    /\ v.members[1][2].t = "str"
Msg(v) == v.members[1][2].s
HasAtom(msg, a) == \E i \in 1..Len(msg) : msg[i] = a

\* the endpoint or the key is None or ''
Unconfigured ==
    \/ SUZIEQ_API_ENDPOINT \in {JNull, JStr(<<>>)}
    \/ SUZIEQ_API_KEY \in {JNull, JStr(<<>>)}

\* what the tool's returned text parses to
Parsed(c) == Loads(ret[c].value.s)

\* C1: a call made while the endpoint or the key is unset or empty returns
\* {"error": msg} with "configured" in msg (as the tool's text too), and no
\* client is created and no GET is issued in that call.
C1_UnconfiguredIsError ==
    \A c \in Calls :
        (pc[c] # "idle" /\ Unconfigured) =>
            /\ pc[c] = "done"
            /\ pending[c].exc = "none"
            /\ SingleKey(pending[c].value, "error")
            /\ HasAtom(Msg(pending[c].value), "configured")
            /\ ret[c].t = "return"
            /\ Parsed(c).ok /\ Parsed(c).val = pending[c].value
            /\ client[c] = "none"
            /\ gets[c] = 0
            /\ request[c] = Unset

C1_Witness ==
    /\ pc[1] = "done"
    /\ SUZIEQ_API_ENDPOINT = JStr(<<"https://api.example.com">>)
    /\ SUZIEQ_API_KEY = JStr(<<>>)
    /\ args[1].filters = Ref("F1")
    /\ SingleKey(pending[1].value, "error")

\* C2: the parameters sent with a GET always hold access_token = the
\* configured key and format = "json", whatever the caller's filters hold
\* under those keys.
C2_InjectedParamsWin ==
    \A c \in Calls :
        request[c] # Unset =>
            /\ {"access_token", "format"} \subseteq DOMAIN request[c].params
            /\ request[c].params["access_token"] = SUZIEQ_API_KEY
            /\ request[c].params["format"] = JStr(<<"json">>)

C2_Witness ==
    /\ pc[1] = "awaiting"
    /\ args[1].filters = Ref("F2")
    /\ Heap0["F2"]["access_token"] # SUZIEQ_API_KEY
    /\ request[1].params["access_token"] = SUZIEQ_API_KEY

\* the remote answered call c with a 2xx status other than 204, a JSON
\* content-type and a body that is well-formed JSON
JsonSuccess(c) ==
    /\ outcome[c].kind = "response"
    /\ outcome[c].status \div 100 = 2
    /\ outcome[c].status # 204
    /\ IsJsonContentType(DictGet(outcome[c].headers, "content-type", <<>>))
    /\ Loads(outcome[c].text).ok

\* C3: pass-through identity: after such an answer the text the tool
\* returns parses to exactly what the remote body parses to.
C3_PassThroughIdentity ==
    \A c \in Calls :
        (pc[c] = "done" /\ IsTool(c) /\ JsonSuccess(c)) =>
            /\ ret[c].t = "return"
            /\ Parsed(c).ok
            /\ Parsed(c).val = Loads(outcome[c].text).val

\* a body with a repeated key, and one with escapes and a non-ASCII character
C3_Witness ==
    /\ pc[1] = "done"
    /\ JsonSuccess(1)
    /\ outcome[1].status = 201
    /\ HasAtom(outcome[1].text, Backslash)
    /\ HasAtom(outcome[1].text, "é")
    /\ ret[1].value.s # outcome[1].text

\* C4: a 4xx or 5xx answer gives {"error": msg} with the status code and the
\* body text in msg, whatever the content-type and body; neither the
\* content-type is read nor the body decoded.
C4_HttpErrorStatus ==
    \A c \in Calls :
        (pc[c] \in {"exiting", "done"} /\ outcome[c].kind = "response"
            /\ outcome[c].status \div 100 \in {4, 5}) =>
            /\ pending[c].exc = "none"
            /\ SingleKey(pending[c].value, "error")
            /\ HasAtom(Msg(pending[c].value), StatusStr(outcome[c].status))
            /\ Contains(Msg(pending[c].value), outcome[c].text)
            /\ ~pending[c].jsonCalled
            /\ ~pending[c].ctypeRead

C4_Witness ==
    /\ pc[1] = "done"
    /\ outcome[1].kind = "response"
    /\ outcome[1].status = 404
    /\ IsJsonContentType(DictGet(outcome[1].headers, "content-type", <<>>))
    /\ Loads(outcome[1].text).ok
    /\ Len(outcome[1].text) > 2

\* C5: a 204 answer gives {"warning": msg} naming the verb and the table,
\* never an error mapping, whatever the content-type and body; neither the
\* content-type is read nor the body decoded.
C5_NoContentIsWarning ==
    \A c \in Calls :
        (pc[c] \in {"exiting", "done"} /\ outcome[c].kind = "response"
            /\ outcome[c].status = 204) =>
            /\ pending[c].exc = "none"
            /\ SingleKey(pending[c].value, "warning")
            /\ ~SingleKey(pending[c].value, "error")
            /\ HasAtom(Msg(pending[c].value), args[c].verb)
            /\ HasAtom(Msg(pending[c].value), args[c].table)
            /\ ~pending[c].jsonCalled
            /\ ~pending[c].ctypeRead

C5_Witness ==
    /\ pc[1] = "done"
    /\ outcome[1].kind = "response"
    /\ outcome[1].status = 204
    /\ "content-type" \in DOMAIN outcome[1].headers
    /\ ~IsJsonContentType(outcome[1].headers["content-type"])
    /\ outcome[1].text # <<>>
    /\ args[1].verb = "summarize"

\* the result of call c is the decoded body of a JSON response
Decoded(c) ==
    /\ outcome[c].kind = "response"
    /\ pending[c].jsonCalled
    /\ Loads(outcome[c].text).ok
IsPassThrough(c) == Decoded(c) /\ pending[c].value = Loads(outcome[c].text).val
IsErrorMapping(c) == ~Decoded(c) /\ SingleKey(pending[c].value, "error")
IsWarningMapping(c) == ~Decoded(c) /\ SingleKey(pending[c].value, "warning")
Count(b) == IF b THEN 1 ELSE 0

IsFailure(c) ==
    \/ outcome[c].kind # "response"
    \/ ~Decoded(c) /\ outcome[c].status # 204

\* C7: no call of a tool raises; a call that is over has returned a str that
\* is JSON text, and after a failure that text is a single-key error mapping.
C7_ToolNeverThrows ==
    \A c \in Calls :
        (pc[c] # "idle" /\ IsTool(c)) =>
            /\ pc[c] # "raised"
            /\ pc[c] = "done" =>
                /\ ret[c].t = "return"
                /\ ret[c].value.t = "str"
                /\ Parsed(c).ok
                /\ IsFailure(c) => SingleKey(Parsed(c).val, "error")

C7_Witness ==
    /\ pc[1] = "done"
    /\ outcome[1].kind = "OtherError"
    /\ SingleKey(Parsed(1).val, "error")

\* C8: filters that are no mapping are treated as omitted filters, by the
\* helper as by the tools: the call does not raise and sends exactly
\* access_token and format.
C8_NonMappingAsOmitted ==
    \A c \in Calls :
        (pc[c] # "idle" /\ ~IsDict(args[c].filters)) =>
            /\ pc[c] # "raised"
            /\ request[c] # Unset =>
                    request[c].params =
                        [k \in {"access_token", "format"} |->
                            IF k = "format" THEN JStr(<<"json">>) ELSE SUZIEQ_API_KEY]

\* C9: the dicts callers pass as filters hold after any number of calls
\* what they held before.
C9_FiltersUnchanged == heap = Heap0

\* C10: a call issues at most one GET; its client is open only from the
\* entry of the async with block to its exit; a configured call that is over
\* has acquired a client and released it; so no client is open once every
\* call is over.
C10_ClientReleased ==
    /\ \A c \in Calls :
        /\ gets[c] <= 1
        /\ client[c] = "open" <=> pc[c] \in {"entered", "awaiting", "exiting"}
        /\ (Finished(c) /\ ~Unconfigured) => (client[c] = "closed" /\ gets[c] = 1)
    /\ (\A c \in Calls : Finished(c)) => \A c \in Calls : client[c] # "open"

C10_Witness ==
    /\ \A c \in Calls : pc[c] = "done" /\ client[c] = "closed"
    /\ outcome[1].kind = "ReadTimeout"
    /\ IsPassThrough(2)

====
